---------------------------- MODULE Spec2Model ----------------------------
(***************************************************************************)
(* A model of rotkehlchen/data_import/utils.py: BaseExchangeImporter (the  *)
(* four record buffers, the add_* methods, maybe_flush_all, flush_all and  *)
(* import_csv) and detect_duplicate_event.                                 *)
(*                                                                         *)
(* The abstract hook _import_csv is a subclass method: it is modelled as a *)
(* process that, between the entry of import_csv and its exit, calls the   *)
(* add_* methods and detect_duplicate_event in any order, and then either  *)
(* returns or raises.  Every store endpoint may raise (a store-layer       *)
(* error), which is the input `fail` of the operations that flush.         *)
(*                                                                         *)
(* Variables that are not fields of the program (appended, last, session,  *)
(* exc) are history variables: they record what happened and never         *)
(* influence the program's state.                                          *)
(***************************************************************************)
EXTENDS Integers, Sequences, FiniteSets, TLC

(***************************************************************************)
(* Bounds.  ITEMS_PER_DB_WRITE is 400 in the source (utils.py:19); the     *)
(* model scales it down so that every mix of record kinds up to and past   *)
(* the threshold is explored.  Four is the least value at which all four   *)
(* kinds can be pending at once in a threshold-triggered flush.            *)
(***************************************************************************)
ITEMS_PER_DB_WRITE == 4

\* Records appended over the life of one importer.
MaxRecords == 5

\* Longest list handed to add_history_events.
MaxBatch == 2

(***************************************************************************)
(* Values.                                                                 *)
(***************************************************************************)
\* A history event as the store keeps it (the columns the duplicate query
\* reads).  event_identifier is a sequence of characters.  The hook's events
\* all carry these values; they differ in their identity (id).
EvA == [event_identifier |-> <<"A", "1">>, asset |-> "BTC", amount |-> "1.5",
        timestamp |-> 1000, location |-> "B", type |-> "trade", subtype |-> "spend"]

Events == {EvA}

\* The arguments of detect_duplicate_event, serialized as the query binds
\* them: CandA matches EvA, CandB differs from it in the amount's string.
CandA == [event_prefix |-> <<"A">>, asset |-> "BTC", amount |-> "1.5",
          timestamp |-> 1000, location |-> "B", type |-> "trade", subtype |-> "spend"]

CandB == [event_prefix |-> <<"A">>, asset |-> "BTC", amount |-> "1.50",
          timestamp |-> 1000, location |-> "B", type |-> "trade", subtype |-> "spend"]

Candidates == {CandA, CandB}

\* Messages an InputError may carry.
Msgs == {"", "malformed row"}

NoResult == <<>>

NoException == [type |-> "none", msg |-> ""]

\* Lists of at most n events.
RECURSIVE EventLists(_)
EventLists(n) ==
    IF n = 0 THEN {<<>>}
    ELSE EventLists(n - 1) \cup
         {Append(l, e) : l \in {x \in EventLists(n - 1) : Len(x) = n - 1}, e \in Events}

(***************************************************************************)
(* State.                                                                  *)
(***************************************************************************)
VARIABLES
    trades,            \* self._trades
    margin_trades,     \* self._margin_trades
    asset_movements,   \* self._asset_movements
    history_events,    \* self._history_events
    db,                \* the store: one table per endpoint
    pc,                \* "idle" | "hook" | "returned" | "raised"
    result,            \* what import_csv returned: NoResult or <<ok, message>>
    exc,               \* the exception that left the hook, or NoException
    session,           \* history: where the current import_csv call started
    appended,          \* history: every record appended, in order
    last,              \* history: the latest operation and what it saw
    csv_row,           \* the row handed to process_rotki_generic_import_csv_fields
    fields             \* what that call returned or raised, NoFields before it

vars == <<trades, margin_trades, asset_movements, history_events, db, pc, result,
          exc, session, appended, last, csv_row, fields>>

\* The importer's four buffers as one value.
Buf == [trades |-> trades, margin_trades |-> margin_trades,
        asset_movements |-> asset_movements, history_events |-> history_events]

EmptyBuf == [trades |-> <<>>, margin_trades |-> <<>>,
             asset_movements |-> <<>>, history_events |-> <<>>]

\* utils.py:65, the sum maybe_flush_all compares with the threshold.
Total(b) ==
    Len(b.trades) + Len(b.margin_trades) + Len(b.asset_movements) + Len(b.history_events)


(***************************************************************************)
(* The store.  Its endpoints (DBHandler.add_trades, add_margin_positions,  *)
(* add_asset_movements, DBHistoryEvents.add_history_events) and the write  *)
(* context DBHandler.user_write are not part of utils.py; they are         *)
(* modelled from the specification: an endpoint appends the sequence it is *)
(* given to its table, and leaving the write context keeps what was        *)
(* written inside it, on the normal and on the exceptional exit.           *)
(***************************************************************************)
StoreWrite(d, table, records) == [d EXCEPT ![table] = @ \o records]

user_write_exit(d, e) == d

\* A store-layer error: no subclass of InputError.
StoreError == [type |-> "StoreError", msg |-> "store"]

\* The result of an operation that may flush: the store and the buffers after
\* it, the store calls it issued, whether a call raised, flush_all calls made.
Outcome(d, b, calls, raised, flushes) ==
    [db |-> d, buf |-> b, calls |-> calls, raised |-> raised, flushes |-> flushes]

(***************************************************************************)
(* flush_all, utils.py:68-76.  fail = 0: no endpoint raises; fail = k: the *)
(* k-th store call raises, the calls before it have written, and the       *)
(* assignments that clear the buffers (lines 73-76) are not reached.       *)
(***************************************************************************)
Call(endpoint, table, records) ==
    [endpoint |-> endpoint, table |-> table, records |-> records]

\* The statements of flush_all: the store calls `issued` one after the other,
\* then the four assignments.
RunFlush(d, b, issued, fail) ==
    LET n    == IF fail = 0 THEN 4 ELSE fail
        done == IF fail = 0 THEN 4 ELSE fail - 1
        d1 == IF done >= 1 THEN StoreWrite(d, issued[1].table, issued[1].records) ELSE d
        d2 == IF done >= 2 THEN StoreWrite(d1, issued[2].table, issued[2].records) ELSE d1
        d3 == IF done >= 3 THEN StoreWrite(d2, issued[3].table, issued[3].records) ELSE d2
        d4 == IF done >= 4 THEN StoreWrite(d3, issued[4].table, issued[4].records) ELSE d3
    IN  Outcome(d4, IF fail = 0 THEN EmptyBuf ELSE b, SubSeq(issued, 1, n), fail # 0, 1)

\* A flush that writes the margin positions before the trades.
flush_all_reordered(d, b, fail) ==
    RunFlush(d, b,
             << Call("add_margin_positions", "margin_positions", b.margin_trades),
                Call("add_trades", "trades", b.trades),
                Call("add_asset_movements", "asset_movements", b.asset_movements),
                Call("add_history_events", "history_events", b.history_events) >>,
             fail)

\* A flush that leaves the history events in their buffer.
flush_all_keeps_events(d, b, fail) ==
    LET f == RunFlush(d, b,
                      << Call("add_trades", "trades", b.trades),
                         Call("add_margin_positions", "margin_positions", b.margin_trades),
                         Call("add_asset_movements", "asset_movements", b.asset_movements),
                         Call("add_history_events", "history_events", b.history_events) >>,
                      fail)
    IN  [f EXCEPT !.buf = [@ EXCEPT !.history_events = b.history_events]]

\* A flush that clears the buffers and hands the trades endpoint nothing.
flush_all_drops_trades(d, b, fail) ==
    RunFlush(d, b,
             << Call("add_trades", "trades", <<>>),
                Call("add_margin_positions", "margin_positions", b.margin_trades),
                Call("add_asset_movements", "asset_movements", b.asset_movements),
                Call("add_history_events", "history_events", b.history_events) >>,
             fail)

flush_all(d, b, fail) ==
    RunFlush(d, b,
             << Call("add_trades", "trades", b.trades),
                Call("add_margin_positions", "margin_positions", b.margin_trades),
                Call("add_asset_movements", "asset_movements", b.asset_movements),
                Call("add_history_events", "history_events", b.history_events) >>,
             fail)

(***************************************************************************)
(* maybe_flush_all, utils.py:64-66.                                        *)
(***************************************************************************)
maybe_flush_all_strict(d, b, fail) ==
    IF Total(b) > ITEMS_PER_DB_WRITE
    THEN flush_all(d, b, fail)
    ELSE Outcome(d, b, <<>>, FALSE, 0)

\* A flush on every call that finds something buffered.
maybe_flush_all_eager(d, b, fail) ==
    IF Total(b) >= 1
    THEN flush_all(d, b, fail)
    ELSE Outcome(d, b, <<>>, FALSE, 0)

maybe_flush_all(d, b, fail) ==
    IF Total(b) >= ITEMS_PER_DB_WRITE
    THEN flush_all(d, b, fail)
    ELSE Outcome(d, b, <<>>, FALSE, 0)

(***************************************************************************)
(* The add_* methods, utils.py:48-62: append (extend), then                *)
(* maybe_flush_all.                                                        *)
(***************************************************************************)
\* A trade put in front of the pending trades.
add_trade_prepends(d, b, trade, fail) ==
    maybe_flush_all(d, [b EXCEPT !.trades = <<trade>> \o @], fail)

\* An append that does not look at the threshold.
add_trade_unchecked(d, b, trade, fail) ==
    Outcome(d, [b EXCEPT !.trades = Append(@, trade)], <<>>, FALSE, 0)

add_trade(d, b, trade, fail) ==
    maybe_flush_all(d, [b EXCEPT !.trades = Append(@, trade)], fail)

\* A margin position appended to the trades.
add_margin_trade_misfiled(d, b, margin_trade, fail) ==
    maybe_flush_all(d, [b EXCEPT !.trades = Append(@, margin_trade)], fail)

add_margin_trade(d, b, margin_trade, fail) ==
    maybe_flush_all(d, [b EXCEPT !.margin_trades = Append(@, margin_trade)], fail)

add_asset_movement(d, b, asset_movement, fail) ==
    maybe_flush_all(d, [b EXCEPT !.asset_movements = Append(@, asset_movement)], fail)

add_history_events(d, b, events, fail) ==
    maybe_flush_all(d, [b EXCEPT !.history_events = @ \o events], fail)

(***************************************************************************)
(* detect_duplicate_event, utils.py:108-132.                               *)
(***************************************************************************)
\* ASCII case folding, as SQLite's LIKE applies it.
Lower(c) ==
    CASE c = "A" -> "a"
      [] c = "B" -> "b"
      [] OTHER -> c

\* SQLite's LIKE: % matches any run of characters, _ any one character, and
\* letters match whatever their case.
RECURSIVE Like(_, _)
Like(pattern, str) ==
    IF pattern = <<>> THEN str = <<>>
    ELSE IF Head(pattern) = "%"
         THEN Like(Tail(pattern), str) \/ (str # <<>> /\ Like(pattern, Tail(str)))
    ELSE IF str = <<>> THEN FALSE
    ELSE IF Head(pattern) = "_" THEN Like(Tail(pattern), Tail(str))
    ELSE Lower(Head(pattern)) = Lower(Head(str)) /\ Like(Tail(pattern), Tail(str))

\* The WHERE clause, utils.py:125-130, on one row of history_events.
Matches(cand, row) ==
    /\ Like(cand.event_prefix \o <<"%">>, row.event_identifier)
    /\ row.asset = cand.asset
    /\ row.amount = cand.amount
    /\ row.timestamp = cand.timestamp
    /\ row.location = cand.location
    /\ row.type = cand.type
    /\ row.subtype = cand.subtype

\* SELECT COUNT(*) ... over the rows the read cursor sees.
CountMatches(cand, rows) ==
    Cardinality({i \in 1..Len(rows) : Matches(cand, rows[i].row)})

\* The rows of history_events a read context of the same connection sees
\* while the write context is open: the writes made so far included (the
\* connection is not part of utils.py; this is the specification's
\* read-your-writes requirement).
ReadVisible(d) == d.history_events

\* The check without its first statement.
detect_duplicate_event_no_flush(d, b, cand, fail) ==
    [out |-> Outcome(d, b, <<>>, FALSE, 0),
     read_total |-> Total(b),
     found |-> CountMatches(cand, ReadVisible(d)) # 0]

\* The check handing the buffered records over and keeping them buffered.
detect_duplicate_event_keeps_buffer(d, b, cand, fail) ==
    LET f == flush_all(d, b, fail)
    IN  [out |-> [f EXCEPT !.buf = b],
         read_total |-> Total(f.buf),
         found |-> ~f.raised /\ CountMatches(cand, ReadVisible(f.db)) # 0]

detect_duplicate_event(d, b, cand, fail) ==
    LET f == flush_all(d, b, fail)
    IN  [out |-> f,
         read_total |-> Total(f.buf),
         found |-> ~f.raised /\ CountMatches(cand, ReadVisible(f.db)) # 0]

(***************************************************************************)
(* import_csv, utils.py:31-39.                                             *)
(***************************************************************************)
\* utils.py:35, the flush after the hook has returned.
import_csv_no_final_flush(d, b, fail) == Outcome(d, b, <<>>, FALSE, 0)

\* A final flush made only when the threshold is reached.
import_csv_final_flush_if_full(d, b, fail) == maybe_flush_all(d, b, fail)

import_csv_final_flush(d, b, fail) == flush_all(d, b, fail)

\* isinstance(e, InputError).  UnsupportedCSVEntry (utils.py:79) derives from
\* Exception, and a store-layer error is no InputError either.
IsInputError(e) == e.type = "InputError"

\* Handlers that differ from lines 36-37.
import_csv_except_all(e, d, b) ==
    [caught |-> TRUE, result |-> <<FALSE, e.msg>>,
     out |-> Outcome(d, b, <<>>, FALSE, 0)]

import_csv_except_no_message(e, d, b) ==
    [caught |-> IsInputError(e), result |-> <<FALSE, "">>,
     out |-> Outcome(d, b, <<>>, FALSE, 0)]

import_csv_except_clears(e, d, b) ==
    [caught |-> IsInputError(e), result |-> <<FALSE, e.msg>>,
     out |-> Outcome(d, IF IsInputError(e) THEN EmptyBuf ELSE b, <<>>, FALSE, 0)]

import_csv_except_flushes(e, d, b) ==
    [caught |-> IsInputError(e), result |-> <<FALSE, e.msg>>,
     out |-> IF IsInputError(e) THEN flush_all(d, b, 0) ELSE Outcome(d, b, <<>>, FALSE, 0)]

import_csv_except_rolls_back(e, d, b) ==
    [caught |-> IsInputError(e), result |-> <<FALSE, e.msg>>,
     out |-> Outcome([trades |-> <<>>, margin_positions |-> <<>>,
                      asset_movements |-> <<>>, history_events |-> <<>>],
                     b, <<>>, FALSE, 0)]

\* utils.py:36-37: exception e leaves the with block.  Only an InputError is
\* caught, and then the result is (False, str(e)); buffers and store are not
\* touched by the handler.
import_csv_except(e, d, b) ==
    [caught |-> IsInputError(e), result |-> <<FALSE, e.msg>>,
     out |-> Outcome(d, b, <<>>, FALSE, 0)]

\* utils.py:38-39.
import_csv_else == <<TRUE, "">>

(***************************************************************************)
(* process_rotki_generic_import_csv_fields, utils.py:83-99.                *)
(*                                                                         *)
(* A csv row is a function from column names to cells.  A column the row   *)
(* lacks is not in its domain (csv_row[c] then raises KeyError).  A cell   *)
(* is <<s>> for the string s, or <<>> for None, which csv.DictReader puts  *)
(* where a line is shorter than the header.  An optional value is <<v>> or *)
(* <<>> for None.                                                          *)
(***************************************************************************)
NoRow == [c \in {} |-> <<>>]

\* bool(cell): None and the empty string are false.
Truthy(cell) == cell # <<>> /\ cell # <<"">>

\* What the call gives: the exception it raised ("none": it returned) and the
\* five values of the tuple it returned.
Fields(raised, asset, fee, fee_currency, location, timestamp) ==
    [raised |-> raised, asset |-> asset, fee |-> fee, fee_currency |-> fee_currency,
     location |-> location, timestamp |-> timestamp]

NoFields == Fields("not called", "", <<>>, <<>>, "", 0)

Raise(e) == Fields(e, "", <<>>, <<>>, "", 0)

\* The deserializers and the asset resolvers are imported from other modules
\* of the package; they are modelled from the specification as partial
\* functions: <<v>> for the value, <<>> where they raise.
LocationDeserialize(cell) ==
    CASE cell = <<"kraken">> -> <<"KRAKEN">>
      [] cell = <<"binance">> -> <<"BINANCE">>
      [] OTHER -> <<>>

deserialize_timestamp(cell) ==
    CASE cell = <<"1609459200">> -> <<1609459200>>
      [] cell = <<"1000">> -> <<1000>>
      [] OTHER -> <<>>

\* Amounts in tenths.
deserialize_asset_amount(cell) ==
    CASE cell = <<"0">> -> <<0>>
      [] cell = <<"0.1">> -> <<1>>
      [] cell = <<"0.10">> -> <<1>>
      [] OTHER -> <<>>

\* LOCATION_TO_ASSET_MAPPING.get(location, asset_from_common_identifier),
\* applied to a cell.
asset_mapping(location, cell) ==
    CASE cell = <<"BTC">> -> <<"BTC">>
      [] cell = <<"EUR">> -> <<"EUR">>
      [] cell = <<"XBT">> /\ location = "KRAKEN" -> <<"BTC">>
      [] OTHER -> <<>>

\* The value of an expression, or that its evaluation raised.
Value(v) == [raised |-> FALSE, value |-> v]

Raised == [raised |-> TRUE, value |-> <<>>]

\* utils.py:92, the fee of a row that has the column.
fee_of(cell) ==
    IF Truthy(cell)
    THEN (IF deserialize_asset_amount(cell) = <<>> THEN Raised
          ELSE Value(deserialize_asset_amount(cell)))
    ELSE Value(<<>>)

\* The fee currency resolved whenever its cell is filled.
fee_currency_ignoring_fee(location, cell, fee) ==
    IF Truthy(cell)
    THEN (IF asset_mapping(location, cell) = <<>> THEN Raised
          ELSE Value(asset_mapping(location, cell)))
    ELSE Value(<<>>)

\* utils.py:95-98, the fee currency of a row that has the column.
fee_currency_of(location, cell, fee) ==
    IF Truthy(cell) /\ fee # <<>>
    THEN (IF asset_mapping(location, cell) = <<>> THEN Raised
          ELSE Value(asset_mapping(location, cell)))
    ELSE Value(<<>>)

process_rotki_generic_import_csv_fields(row, currency_colname) ==
    IF "Location" \notin DOMAIN row THEN Raise("KeyError")
    ELSE IF LocationDeserialize(row["Location"]) = <<>> THEN Raise("DeserializationError")
    ELSE IF "Timestamp" \notin DOMAIN row THEN Raise("KeyError")
    ELSE IF deserialize_timestamp(row["Timestamp"]) = <<>> THEN Raise("DeserializationError")
    ELSE IF "Fee" \notin DOMAIN row THEN Raise("KeyError")
    ELSE IF fee_of(row["Fee"]).raised THEN Raise("DeserializationError")
    ELSE IF currency_colname \notin DOMAIN row THEN Raise("KeyError")
    ELSE LET location == LocationDeserialize(row["Location"])[1]
             timestamp == deserialize_timestamp(row["Timestamp"])[1]
             fee == fee_of(row["Fee"]).value
             asset == asset_mapping(location, row[currency_colname])
         IN  IF asset = <<>> THEN Raise("UnknownAsset")
             ELSE IF "Fee Currency" \notin DOMAIN row THEN Raise("KeyError")
             ELSE IF fee_currency_of(location, row["Fee Currency"], fee).raised
                  THEN Raise("UnknownAsset")
             ELSE Fields("none", asset[1], fee,
                         fee_currency_of(location, row["Fee Currency"], fee).value,
                         location, timestamp)

(***************************************************************************)
(* History records.                                                        *)
(***************************************************************************)
NoCandidate == [event_prefix |-> <<>>, asset |-> "", amount |-> "",
                timestamp |-> 0, location |-> "", type |-> "", subtype |-> ""]

\* What the latest operation was and saw.  n: the records it appended;
\* flushes: the flush_all calls it made; calls: the store calls of its flush,
\* in the order they were issued.  For detect_duplicate_event: its candidate,
\* its answer, whether a
\* matching event was in the buffer (buffered_match) or visible in the store
\* (committed_match) when it was called, and the buffered count at its read.
NoLast == [op |-> "none", n |-> 0, flushes |-> 0, calls |-> <<>>, cand |-> NoCandidate, found |-> FALSE,
           buffered_match |-> FALSE, committed_match |-> FALSE, read_total |-> 0]

AddOps == {"add_trade", "add_margin_trade", "add_asset_movement", "add_history_events"}

\* Two outcomes in sequence.
Then(o1, o2) ==
    Outcome(o2.db, o2.buf, IF o2.flushes > 0 THEN o2.calls ELSE o1.calls,
            o2.raised, o1.flushes + o2.flushes)

SetBuf(b) ==
    /\ trades' = b.trades
    /\ margin_trades' = b.margin_trades
    /\ asset_movements' = b.asset_movements
    /\ history_events' = b.history_events

Record(op, o, recs, seen) ==
    /\ appended' = appended \o recs
    /\ last' = [seen EXCEPT !.op = op, !.n = Len(recs), !.flushes = o.flushes,
                            !.calls = o.calls]
    /\ session' = [session EXCEPT
                     !.one_at_a_time = @ /\ op \in AddOps /\ Len(recs) = 1]
    /\ UNCHANGED <<csv_row, fields>>

\* The operation returned to the hook.
Stay(op, o, recs, seen) ==
    /\ SetBuf(o.buf)
    /\ db' = o.db
    /\ UNCHANGED <<pc, result, exc>>
    /\ Record(op, o, recs, seen)

\* Exception e leaves the hook, the with block (user_write's exit) and
\* reaches the except clause of import_csv.
Exit(op, e, o, recs, seen) ==
    LET h == import_csv_except(e, o.db, o.buf)
        t == Then(o, h.out)
    IN  /\ SetBuf(t.buf)
        /\ db' = user_write_exit(t.db, e)
        /\ exc' = e
        /\ pc' = IF h.caught THEN "returned" ELSE "raised"
        /\ result' = IF h.caught THEN h.result ELSE NoResult
        /\ Record(op, t, recs, seen)

\* A store call that raised ends the operation before it has seen anything.
Settle(op, o, recs, seen) ==
    IF o.raised THEN Exit(op, StoreError, o, recs, NoLast) ELSE Stay(op, o, recs, seen)

Fails == 0..4

NextId == Len(appended) + 1

(***************************************************************************)
(* Initial state: the importer as __init__ leaves it (utils.py:23-29), on  *)
(* an empty store.                                                         *)
(***************************************************************************)
EmptyStore == [trades |-> <<>>, margin_positions |-> <<>>,
               asset_movements |-> <<>>, history_events |-> <<>>]

\* How the import_csv call that has just ended came out.
Ended ==
    CASE pc = "raised" -> "raised"
      [] pc = "returned" /\ result[1] -> "ok"
      [] pc = "returned" /\ ~result[1] -> "failed"
      [] OTHER -> "none"

\* base: the records appended before the call; start_total: the records
\* buffered at its start; call: its number on this importer; prev: how the
\* call before it ended.
NewSession(b) ==
    [base |-> Len(appended), start_total |-> Total(b), one_at_a_time |-> TRUE,
     call |-> session.call + 1, prev |-> Ended]

Init ==
    /\ trades = <<>>
    /\ margin_trades = <<>>
    /\ asset_movements = <<>>
    /\ history_events = <<>>
    /\ db = EmptyStore
    /\ pc = "idle"
    /\ result = NoResult
    /\ exc = NoException
    /\ appended = <<>>
    /\ session = [base |-> 0, start_total |-> 0, one_at_a_time |-> TRUE,
                  call |-> 0, prev |-> "none"]
    /\ last = NoLast
    /\ csv_row = NoRow
    /\ fields = NoFields

(***************************************************************************)
(* Actions.                                                                *)
(***************************************************************************)
\* import_csv is called on the new importer: the write context is entered
\* and the hook starts.
ImportCsv ==
    /\ pc = "idle"
    /\ pc' = "hook"
    /\ result' = NoResult
    /\ exc' = NoException
    /\ session' = NewSession(Buf)
    /\ last' = [NoLast EXCEPT !.op = "import_csv"]
    /\ UNCHANGED <<trades, margin_trades, asset_movements, history_events, db,
                   appended, csv_row, fields>>

AddTrade ==
    /\ pc = "hook"
    /\ Len(appended) < MaxRecords
    /\ \E fail \in Fails :
         LET trade == [id |-> NextId, kind |-> "trade"]
         IN  Settle("add_trade", add_trade(db, Buf, trade, fail), <<trade>>, NoLast)

AddMarginTrade ==
    /\ pc = "hook"
    /\ Len(appended) < MaxRecords
    /\ \E fail \in Fails :
         LET margin_trade == [id |-> NextId, kind |-> "margin"]
         IN  Settle("add_margin_trade", add_margin_trade(db, Buf, margin_trade, fail),
                    <<margin_trade>>, NoLast)

AddAssetMovement ==
    /\ pc = "hook"
    /\ Len(appended) < MaxRecords
    /\ \E fail \in Fails :
         LET asset_movement == [id |-> NextId, kind |-> "movement"]
         IN  Settle("add_asset_movement",
                    add_asset_movement(db, Buf, asset_movement, fail),
                    <<asset_movement>>, NoLast)

AddHistoryEvents ==
    /\ pc = "hook"
    /\ \E rows \in EventLists(MaxBatch), fail \in Fails :
         /\ Len(appended) + Len(rows) <= MaxRecords
         /\ LET events == [i \in 1..Len(rows) |->
                             [id |-> Len(appended) + i, kind |-> "event", row |-> rows[i]]]
            IN  Settle("add_history_events", add_history_events(db, Buf, events, fail),
                       events, NoLast)

\* detect_duplicate_event called with one of the candidates cands.
DetectDuplicate(cands) ==
    /\ pc = "hook"
    /\ \E cand \in cands, fail \in Fails :
         LET r == detect_duplicate_event(db, Buf, cand, fail)
             seen == [NoLast EXCEPT
                        !.cand = cand,
                        !.found = r.found,
                        !.buffered_match = CountMatches(cand, history_events) # 0,
                        !.committed_match = CountMatches(cand, ReadVisible(db)) # 0,
                        !.read_total = r.read_total]
         IN  Settle("detect_duplicate_event", r.out, <<>>, seen)

DetectDuplicateEvent == DetectDuplicate(Candidates)

\* The hook raises.
HookExceptions ==
    {[type |-> "InputError", msg |-> m] : m \in Msgs}
        \cup {[type |-> "UnsupportedCSVEntry", msg |-> "unsupported entry"]}

HookRaises ==
    /\ pc = "hook"
    /\ \E e \in HookExceptions :
         Exit("hook_raise", e, Outcome(db, Buf, <<>>, FALSE, 0), <<>>, NoLast)

\* The hook returns: the final flush, the exit of the with block, the result.
HookReturns ==
    /\ pc = "hook"
    /\ \E fail \in Fails :
         LET o == import_csv_final_flush(db, Buf, fail)
         IN  IF o.raised
             THEN Exit("hook_return", StoreError, o, <<>>, NoLast)
             ELSE /\ SetBuf(o.buf)
                  /\ db' = user_write_exit(o.db, NoException)
                  /\ pc' = "returned"
                  /\ result' = import_csv_else
                  /\ exc' = NoException
                  /\ Record("hook_return", o, <<>>, NoLast)

Next ==
    \/ ImportCsv
    \/ AddTrade
    \/ AddMarginTrade
    \/ AddAssetMovement
    \/ AddHistoryEvents
    \/ DetectDuplicateEvent
    \/ HookRaises
    \/ HookReturns

Spec == Init /\ [][Next]_vars

(***************************************************************************)
(* Vocabulary of the properties.                                           *)
(***************************************************************************)
TableOf(kind) ==
    CASE kind = "trade" -> "trades"
      [] kind = "margin" -> "margin_positions"
      [] kind = "movement" -> "asset_movements"
      [] kind = "event" -> "history_events"

Tables == {"trades", "margin_positions", "asset_movements", "history_events"}

\* Record r is in the table of its kind.
InStore(r) == \E i \in 1..Len(db[TableOf(r.kind)]) : db[TableOf(r.kind)][i] = r

\* Record r is in some buffer.
InBuffer(r) ==
    \/ \E i \in 1..Len(trades) : trades[i] = r
    \/ \E i \in 1..Len(margin_trades) : margin_trades[i] = r
    \/ \E i \in 1..Len(asset_movements) : asset_movements[i] = r
    \/ \E i \in 1..Len(history_events) : history_events[i] = r

\* The records appended during the current import_csv call, and their number.
ThisCall == session.base + 1 .. Len(appended)

Appends == Len(appended) - session.base

\* The records a table has received during the current import_csv call.
Received(table) ==
    LET mine(r) == r.id > session.base
    IN  SelectSeq(db[table], mine)

\* The records of one kind appended during the current call, in order.
AppendedOf(table) ==
    LET mine(r) == r.id > session.base /\ TableOf(r.kind) = table
    IN  SelectSeq(appended, mine)

\* The number of records the latest flush handed to the store.
RECURSIVE Handed(_)
Handed(calls) ==
    IF calls = <<>> THEN 0 ELSE Len(Head(calls).records) + Handed(Tail(calls))

Returned == pc = "returned" /\ result # NoResult

(***************************************************************************)
(* C1.  Whenever add_trade, add_margin_trade, add_asset_movement or        *)
(* add_history_events has returned, the total number of buffered records   *)
(* is strictly below the flush threshold.                                  *)
(***************************************************************************)
C1_BelowThresholdAfterAdd ==
    (pc = "hook" /\ last.op \in AddOps) => Total(Buf) < ITEMS_PER_DB_WRITE

\* An add_history_events call pushed the count past the threshold inside the
\* call, and its flush cleared it.
C1_Witness ==
    /\ pc = "hook"
    /\ last.op = "add_history_events"
    /\ last.flushes = 1
    /\ Handed(last.calls) > ITEMS_PER_DB_WRITE
    /\ Total(Buf) = 0

(***************************************************************************)
(* C2.  From an empty buffer, appending one record at a time: during the   *)
(* first threshold-1 appends nothing is flushed, and right after the       *)
(* threshold-th append the buffer is empty and the store has received      *)
(* exactly those records, each in the table of its own kind.               *)
(***************************************************************************)
C2_ThresholdFlush ==
    (pc = "hook" /\ session.start_total = 0 /\ session.one_at_a_time) =>
        /\ Appends < ITEMS_PER_DB_WRITE =>
              /\ Total(Buf) = Appends
              /\ last.flushes = 0
              /\ \A t \in Tables : Received(t) = <<>>
        /\ Appends = ITEMS_PER_DB_WRITE =>
              /\ Total(Buf) = 0
              /\ last.flushes = 1
              /\ \A t \in Tables : Received(t) = AppendedOf(t)
              /\ Len(Received("trades")) + Len(Received("margin_positions"))
                   + Len(Received("asset_movements")) + Len(Received("history_events"))
                 = ITEMS_PER_DB_WRITE

\* The threshold-th single append has flushed a batch that mixes all kinds.
C2_Witness ==
    /\ pc = "hook"
    /\ session.one_at_a_time
    /\ Appends = ITEMS_PER_DB_WRITE
    /\ Total(Buf) = 0
    /\ \A t \in Tables : Len(db[t]) > 0

(***************************************************************************)
(* C3.  detect_duplicate_event flushes before it reads: at its read the    *)
(* buffer is empty, and when an event matching the candidate was buffered  *)
(* at the call it answers true.                                            *)
(***************************************************************************)
C3_FlushBeforeCheck ==
    (pc = "hook" /\ last.op = "detect_duplicate_event") =>
        /\ last.read_total = 0
        /\ last.flushes = 1
        /\ last.buffered_match => last.found

\* The only matching event was still buffered, below the threshold, when the
\* check was called, and the check found it.
C3_Witness ==
    /\ pc = "hook"
    /\ last.op = "detect_duplicate_event"
    /\ last.buffered_match
    /\ ~last.committed_match
    /\ last.found

(***************************************************************************)
(* C4.  When the hook returns without error, import_csv makes one final    *)
(* flush_all; if import_csv then returns, no record is buffered, every     *)
(* record the hook appended is in the store and the result is (True, '').  *)
(***************************************************************************)
C4_FinalFlush ==
    last.op = "hook_return" =>
        /\ last.flushes = 1
        /\ pc = "returned" =>
              /\ result = <<TRUE, "">>
              /\ exc = NoException
              /\ Total(Buf) = 0
              /\ \A i \in ThisCall : InStore(appended[i])

\* A successful import whose final flush wrote records that were pending.
C4_Witness ==
    /\ pc = "returned"
    /\ last.op = "hook_return"
    /\ result = <<TRUE, "">>
    /\ Handed(last.calls) > 0

(***************************************************************************)
(* C5.  As claimed: the buffer is empty whenever import_csv has returned.  *)
(***************************************************************************)
C5_Original == Returned => Total(Buf) = 0

(***************************************************************************)
(* C5, amended.  When import_csv returns (True, '') the buffer is empty;   *)
(* when it returns (False, message) the four buffers are exactly what they *)
(* were when the hook raised: they are not cleared.                        *)
(***************************************************************************)
C5_BufferAtReturn ==
    [][(pc = "hook" /\ pc' = "returned") =>
           IF result'[1] THEN Total(Buf)' = 0 ELSE Buf' = Buf]_vars

\* import_csv returned (False, message) with records left in the buffer.
C5_Witness ==
    /\ Returned
    /\ ~result[1]
    /\ Total(Buf) > 0

(***************************************************************************)
(* C6.  As claimed: when the hook escapes with an error, a final flush_all *)
(* is attempted and the records still buffered are handed to the store.    *)
(***************************************************************************)
C6_Original ==
    last.op = "hook_raise" =>
        /\ last.flushes = 1
        /\ \A i \in ThisCall : InStore(appended[i])

(***************************************************************************)
(* C6, amended.  When the hook escapes with an error, no final flush_all   *)
(* is attempted: no store endpoint is called, and the records still        *)
(* buffered at the failing row stay in the buffer, unwritten.              *)
(***************************************************************************)
C6_NoFlushOnError ==
    last.op = "hook_raise" =>
        /\ last.flushes = 0
        /\ last.calls = <<>>
        /\ \A i \in ThisCall : InBuffer(appended[i]) => ~InStore(appended[i])

\* The hook raised while records were pending, after an earlier batch had
\* been written.
C6_Witness ==
    /\ last.op = "hook_raise"
    /\ Total(Buf) > 0
    /\ \E i \in ThisCall : InStore(appended[i])

C8_InputErrorResult ==
    exc.type = "InputError" => (pc = "returned" /\ result = <<FALSE, exc.msg>>)

C8_Witness ==
    /\ exc.type = "InputError"
    /\ result = <<FALSE, "malformed row">>

(***************************************************************************)
(* C9.  import_csv catches only InputError: any other failure, raised by   *)
(* the hook or by a store endpoint during a flush, propagates and no       *)
(* result is produced; a (False, message) result comes from an InputError  *)
(* alone.                                                                  *)
(***************************************************************************)
C9_OthersPropagate ==
    /\ exc.type \notin {"none", "InputError"} => (pc = "raised" /\ result = NoResult)
    /\ (Returned /\ ~result[1]) => exc.type = "InputError"

\* A store endpoint raised during the flush an add_* call triggered.
C9_Witness ==
    /\ pc = "raised"
    /\ exc = StoreError
    /\ last.op \in AddOps
    /\ last.flushes = 1

(***************************************************************************)
(* C10.  Every flush_all issues its store calls in the order trades,       *)
(* margin positions, asset movements, history events, each with the        *)
(* records of that kind; a flush that no store call interrupts issues all  *)
(* four.                                                                   *)
(***************************************************************************)
C10_FlushOrder ==
    last.flushes > 0 =>
        /\ Len(last.calls) <= 4
        /\ \A i \in 1..Len(last.calls) :
              /\ last.calls[i].endpoint =
                    <<"add_trades", "add_margin_positions",
                      "add_asset_movements", "add_history_events">>[i]
              /\ \A j \in 1..Len(last.calls[i].records) :
                    last.calls[i].records[j].kind =
                        <<"trade", "margin", "movement", "event">>[i]
        /\ pc # "raised" => Len(last.calls) = 4

\* A flush with all four kinds pending.
C10_Witness ==
    /\ last.flushes > 0
    /\ Len(last.calls) = 4
    /\ \A i \in 1..4 : Len(last.calls[i].records) > 0

(***************************************************************************)
(* C11.  A flush_all that returns leaves all four buffers empty.  Called   *)
(* by detect_duplicate_event or after the hook, on a buffer of which some  *)
(* or all sequences are empty, it appends to each table exactly the        *)
(* records pending for it, nothing for an empty kind; called on an empty   *)
(* buffer, as a second flush right after a first is, it changes neither    *)
(* the buffers nor the store.                                              *)
(***************************************************************************)
FlushOps == {"detect_duplicate_event", "hook_return"}

\* The buffer whose records go to a table.
Pending(b, table) ==
    CASE table = "trades" -> b.trades
      [] table = "margin_positions" -> b.margin_trades
      [] table = "asset_movements" -> b.asset_movements
      [] table = "history_events" -> b.history_events

C11_FlushClears ==
    [][(pc = "hook" /\ last'.flushes = 1 /\ pc' # "raised") =>
           /\ Buf' = EmptyBuf
           /\ last'.op \in FlushOps =>
                 /\ Len(last'.calls) = 4
                 /\ \A t \in Tables : db'[t] = db[t] \o Pending(Buf, t)
                 /\ Total(Buf) = 0 => (db' = db /\ Buf' = Buf)]_vars

\* The final flush found nothing pending: fewer records than the threshold
\* were appended and a flush before it had written them.
C11_Witness ==
    /\ pc = "returned"
    /\ last.op = "hook_return"
    /\ result = <<TRUE, "">>
    /\ Len(last.calls) = 4
    /\ Handed(last.calls) = 0
    /\ Appends \in 1..(ITEMS_PER_DB_WRITE - 1)
    /\ \A i \in ThisCall : InStore(appended[i])

(***************************************************************************)
(* C12.  As claimed: every batch a threshold-triggered flush hands to the  *)
(* store has a total record count of at most the threshold, also when      *)
(* add_history_events appends several events in one call.                  *)
(***************************************************************************)
C12_Original ==
    (last.op \in AddOps /\ last.flushes = 1 /\ pc = "hook") =>
        Handed(last.calls) <= ITEMS_PER_DB_WRITE

(***************************************************************************)
(* C12, amended.  The batch of a threshold-triggered flush is everything   *)
(* buffered after the append: at least the threshold, and, the count       *)
(* having been below the threshold before the call, at most threshold - 1  *)
(* plus the number of records the call appended.  It is exactly the        *)
(* threshold for add_trade, add_margin_trade and add_asset_movement and    *)
(* may exceed it when add_history_events appends several events.           *)
(***************************************************************************)
C12_BatchBound ==
    (last.op \in AddOps /\ last.flushes = 1 /\ pc = "hook") =>
        /\ Handed(last.calls) >= ITEMS_PER_DB_WRITE
        /\ Handed(last.calls) <= ITEMS_PER_DB_WRITE - 1 + last.n
        /\ last.op # "add_history_events" => Handed(last.calls) = ITEMS_PER_DB_WRITE

\* Two events appended at once onto threshold - 1 buffered records: the batch
\* is one record larger than the threshold.
C12_Witness ==
    /\ pc = "hook"
    /\ last.op = "add_history_events"
    /\ last.n = 2
    /\ last.flushes = 1
    /\ Handed(last.calls) = ITEMS_PER_DB_WRITE + 1

(***************************************************************************)
(* detect_duplicate_event on stored events of every shape.  The store and  *)
(* the buffer hold up to MaxStored events each when the hook calls the     *)
(* check: events whose identifier starts with the candidate's prefix       *)
(* "A_", events whose identifier does not but which LIKE 'A_%' accepts,    *)
(* events of another prefix, and events that differ from the candidate in  *)
(* exactly one of the six bound attributes.                                *)
(***************************************************************************)
MaxStored == 1

DupCand == [event_prefix |-> <<"A", "_">>, asset |-> "BTC", amount |-> "1.5",
            timestamp |-> 1000, location |-> "B", type |-> "trade", subtype |-> "spend"]

DupCandidates == {DupCand, CandA}

DupBase == [event_identifier |-> <<"A", "_", "1">>, asset |-> "BTC", amount |-> "1.5",
            timestamp |-> 1000, location |-> "B", type |-> "trade", subtype |-> "spend"]

DupRows ==
    {[DupBase EXCEPT !.event_identifier = i] :
        i \in {<<"A", "_", "1">>, <<"A", "B", "1">>, <<"a", "_", "1">>, <<"B", "_", "1">>}}
    \cup {[DupBase EXCEPT !.asset = "ETH"], [DupBase EXCEPT !.amount = "1.50"],
          [DupBase EXCEPT !.timestamp = 1001], [DupBase EXCEPT !.location = "K"],
          [DupBase EXCEPT !.type = "deposit"], [DupBase EXCEPT !.subtype = "fee"]}

\* Lists of at most n of these events, as records numbered from first.
RECURSIVE DupLists(_, _)
DupLists(n, first) ==
    IF n = 0 THEN {<<>>}
    ELSE {<<>>} \cup
         {<<[id |-> first, kind |-> "event", row |-> r]>> \o l :
             r \in DupRows, l \in DupLists(n - 1, first + 1)}

InitDuplicate ==
    /\ trades = <<>>
    /\ margin_trades = <<>>
    /\ asset_movements = <<>>
    /\ \E stored \in DupLists(MaxStored, 1) :
          /\ db = [EmptyStore EXCEPT !.history_events = stored]
          /\ \E pending \in DupLists(MaxStored, Len(stored) + 1) :
                /\ history_events = pending
                /\ appended = stored \o pending
                /\ session = [base |-> Len(stored), start_total |-> 0,
                              one_at_a_time |-> TRUE, call |-> 1, prev |-> "none"]
    /\ pc = "hook"
    /\ result = NoResult
    /\ exc = NoException
    /\ last = [NoLast EXCEPT !.op = "import_csv"]
    /\ csv_row = NoRow
    /\ fields = NoFields

DetectDuplicateStored == DetectDuplicate(DupCandidates)

NextDuplicate == DetectDuplicateStored

SpecDuplicate == InitDuplicate /\ [][NextDuplicate]_vars

\* str.startswith
StartsWith(str, prefix) ==
    /\ Len(prefix) <= Len(str)
    /\ SubSeq(str, 1, Len(prefix)) = prefix

\* The event the claim describes: identifier starting with the prefix, the
\* six attributes equal.
SameEvent(cand, row) ==
    /\ StartsWith(row.event_identifier, cand.event_prefix)
    /\ row.asset = cand.asset
    /\ row.amount = cand.amount
    /\ row.timestamp = cand.timestamp
    /\ row.location = cand.location
    /\ row.type = cand.type
    /\ row.subtype = cand.subtype

(***************************************************************************)
(* C13.  detect_duplicate_event returns true if and only if, after its     *)
(* flush, the store holds a history event whose event_identifier starts    *)
(* with the prefix and whose asset, amount string, timestamp, location,    *)
(* type and subtype equal the candidate's.                                 *)
(***************************************************************************)
C13_Original ==
    (pc = "hook" /\ last.op = "detect_duplicate_event") =>
        (last.found <=>
            \E i \in 1..Len(db.history_events) :
                SameEvent(last.cand, db.history_events[i].row))

(***************************************************************************)
(* process_rotki_generic_import_csv_fields applied to drawn rows: every    *)
(* combination of a valid or invalid Location, Timestamp and asset cell    *)
(* with a Fee and a Fee Currency column that is missing, None, empty,      *)
(* filled with something valid or with something invalid.                  *)
(***************************************************************************)
\* Stands for a column the row does not have, while the rows are built.
Absent == <<"no", "column">>

Column(c, cell) == IF cell = Absent THEN NoRow ELSE (c :> cell)

CurrencyColumns == {"Asset"}

CsvRows ==
    {Column("Location", l) @@ Column("Timestamp", t) @@ Column("Fee", f)
        @@ Column("Fee Currency", fc) @@ Column("Asset", a) :
        l \in {<<"kraken">>, <<"nowhere">>},
        t \in {<<"1609459200">>, <<"yesterday">>},
        f \in {Absent, <<>>, <<"">>, <<"0">>, <<"0.1">>, <<"free">>},
        fc \in {Absent, <<>>, <<"">>, <<"EUR">>, <<"???">>},
        a \in {<<"XBT">>, <<"???">>}}

InitFields ==
    /\ trades = <<>>
    /\ margin_trades = <<>>
    /\ asset_movements = <<>>
    /\ history_events = <<>>
    /\ db = EmptyStore
    /\ pc = "idle"
    /\ result = NoResult
    /\ exc = NoException
    /\ appended = <<>>
    /\ session = [base |-> 0, start_total |-> 0, one_at_a_time |-> TRUE,
                  call |-> 0, prev |-> "none"]
    /\ last = NoLast
    /\ csv_row \in CsvRows
    /\ fields = NoFields

ProcessFields ==
    /\ fields = NoFields
    /\ \E currency_colname \in CurrencyColumns :
         fields' = process_rotki_generic_import_csv_fields(csv_row, currency_colname)
    /\ UNCHANGED <<trades, margin_trades, asset_movements, history_events, db, pc,
                   result, exc, session, appended, last, csv_row>>

NextFields == ProcessFields

SpecFields == InitFields /\ [][NextFields]_vars

\* The cell of a column of the row, Absent when the row lacks the column.
Cell(c) == IF c \in DOMAIN csv_row THEN csv_row[c] ELSE Absent

\* The call has been made on a row whose Location, Timestamp and asset cell
\* are there and deserialize.
RequiredFieldsValid ==
    /\ fields # NoFields
    /\ {"Location", "Timestamp", "Asset"} \subseteq DOMAIN csv_row
    /\ LocationDeserialize(csv_row["Location"]) # <<>>
    /\ deserialize_timestamp(csv_row["Timestamp"]) # <<>>
    /\ asset_mapping(LocationDeserialize(csv_row["Location"])[1], csv_row["Asset"]) # <<>>

Copies(seq, r) == Cardinality({i \in 1..Len(seq) : seq[i] = r})

Buffered(r) ==
    Copies(trades, r) + Copies(margin_trades, r) + Copies(asset_movements, r)
        + Copies(history_events, r)

Stored(r) ==
    Copies(db.trades, r) + Copies(db.margin_positions, r) + Copies(db.asset_movements, r)
        + Copies(db.history_events, r)

C15_ExactlyOnce ==
    (pc = "hook" \/ (Returned /\ result[1])) =>
        \A i \in ThisCall :
            /\ Buffered(appended[i]) + Stored(appended[i]) = 1
            /\ pc = "returned" => Stored(appended[i]) = 1

\* A successful import of more records than the threshold: a threshold flush
\* wrote the first, the final flush the rest.
C15_Witness ==
    /\ Returned
    /\ result[1]
    /\ Appends > ITEMS_PER_DB_WRITE
    /\ last.op = "hook_return"
    /\ Handed(last.calls) > 0

(***************************************************************************)
(* C17.  Within each kind the store receives the records in the order in   *)
(* which they were appended, across flushes: what a table has received is  *)
(* always an initial part of what was appended of its kind, in that order. *)
(***************************************************************************)
C17_AppendOrder ==
    \A t \in Tables :
        /\ Len(Received(t)) <= Len(AppendedOf(t))
        /\ Received(t) = SubSeq(AppendedOf(t), 1, Len(Received(t)))

\* The trades table holds trades of two flushes.
C17_Witness ==
    /\ last.flushes = 1
    /\ Len(last.calls) >= 1
    /\ Len(last.calls[1].records) >= 1
    /\ Len(db.trades) > Len(last.calls[1].records)
    /\ Len(db.trades) = Len(AppendedOf("trades"))

(***************************************************************************)
(* C18.  An add_* call that leaves the buffered total below the threshold  *)
(* finds maybe_flush_all doing nothing: no store call is issued, the store *)
(* is unchanged and the buffers hold what they held plus the records just  *)
(* appended.                                                               *)
(***************************************************************************)
\* The records the step appended that go to a table.
JustAppended(table) ==
    LET new(r) == r.id > Len(appended) /\ TableOf(r.kind) = table
    IN  SelectSeq(appended', new)

C18_BelowThresholdNoOp ==
    [][(pc = "hook" /\ last'.op \in AddOps
          /\ Total(Buf) + last'.n < ITEMS_PER_DB_WRITE) =>
           /\ db' = db
           /\ last'.flushes = 0
           /\ last'.calls = <<>>
           /\ pc' = "hook"
           /\ \A t \in Tables : Pending(Buf, t)' = Pending(Buf, t) \o JustAppended(t)]_vars

\* An append has brought the buffer to one below the threshold, unflushed.
C18_Witness ==
    /\ pc = "hook"
    /\ last.op \in AddOps
    /\ last.flushes = 0
    /\ Total(Buf) = ITEMS_PER_DB_WRITE - 1
    /\ \A t \in Tables : db[t] = <<>>

(***************************************************************************)
(* C19.  Duplicate checks change when records are written, not what is     *)
(* written: right after a check, and after import_csv has returned         *)
(* (True, ''), each table holds exactly the records appended of its kind,  *)
(* in append order, however many checks the hook made and wherever it made *)
(* them.  A check adds no record of its own and removes none.              *)
(***************************************************************************)
C19_ChecksTransparent ==
    ((pc = "hook" /\ last.op = "detect_duplicate_event") \/ (Returned /\ result[1])) =>
        \A t \in Tables : Received(t) = AppendedOf(t)

\* A check has written records that were pending below the threshold, after
\* an earlier flush had written others.
C19_Witness ==
    /\ pc = "hook"
    /\ last.op = "detect_duplicate_event"
    /\ Handed(last.calls) \in 1..(ITEMS_PER_DB_WRITE - 1)
    /\ Appends > Handed(last.calls)

(***************************************************************************)
(* One importer used for several import_csv calls.  After a call has       *)
(* ended, by returning or by raising, import_csv is called again on the    *)
(* same instance, up to MaxImports calls.  The hook of this specification  *)
(* appends trades and history events.                                      *)
(***************************************************************************)
MaxImports == 2

ImportCsvAgain ==
    /\ pc \in {"returned", "raised"}
    /\ session.call < MaxImports
    /\ pc' = "hook"
    /\ result' = NoResult
    /\ exc' = NoException
    /\ session' = NewSession(Buf)
    /\ last' = [NoLast EXCEPT !.op = "import_csv"]
    /\ UNCHANGED <<trades, margin_trades, asset_movements, history_events, db,
                   appended, csv_row, fields>>

NextReuse ==
    \/ ImportCsv
    \/ ImportCsvAgain
    \/ AddTrade
    \/ AddHistoryEvents
    \/ HookRaises
    \/ HookReturns

SpecReuse == Init /\ [][NextReuse]_vars

\* Every record the latest flush handed to the store was appended after the
\* first n records.
HandedAfter(n) ==
    \A i \in 1..Len(last.calls) :
        \A j \in 1..Len(last.calls[i].records) : last.calls[i].records[j].id > n

(***************************************************************************)
(* C16.  As claimed: over any sequence of import_csv calls on one          *)
(* importer, calls that ended with InputError included, each call starts   *)
(* with an empty buffer and the records written during a call are records  *)
(* appended during that call.                                              *)
(***************************************************************************)
C16_Original ==
    pc # "idle" =>
        /\ session.start_total = 0
        /\ last.flushes > 0 => HandedAfter(session.base)

(***************************************************************************)
(* C16, amended.  The buffer lives as long as the importer.  The first     *)
(* import_csv call, and a call that follows one which returned (True, ''), *)
(* starts with an empty buffer and writes only records appended during it. *)
(* A call that follows one which ended with an exception, InputError       *)
(* included, starts with whatever was buffered then, and its flushes write *)
(* those records together with its own: what a call writes was buffered at *)
(* its start or appended during it.                                        *)
(***************************************************************************)
C16_BufferLifetime ==
    pc # "idle" =>
        /\ session.prev \in {"none", "ok"} =>
              /\ session.start_total = 0
              /\ last.flushes > 0 => HandedAfter(session.base)
        /\ last.flushes > 0 => HandedAfter(session.base - session.start_total)

\* The second call follows one that returned (False, message) with records
\* buffered, and has written them.
C16_Witness ==
    /\ session.call = 2
    /\ session.prev = "failed"
    /\ session.start_total > 0
    /\ last.flushes > 0
    /\ pc # "raised"
    /\ ~HandedAfter(session.base)

=============================================================================
